---- MODULE Spec2Model ----
(***************************************************************************)
(* Plant-disease-detection backend: the storage layer (MemStorage and      *)
(* DatabaseStorage behind IStorage, src/server/storage.ts), the AI wrapper *)
(* analyzePlantImage (src/server/openai-service.ts) and the HTTP routes    *)
(* (src/server/routes.ts).                                                 *)
(*                                                                         *)
(* Three specifications share the variables:                               *)
(*   SpecStore  the IStorage create calls, applied to a MemStorage and to  *)
(*              a DatabaseStorage side by side;                            *)
(*   SpecAI     analyzePlantImage applied to a parsed model reply;         *)
(*   Spec       the routes, with sessions, over the bound storage (the     *)
(*              clock stands still: no route reads createdAt).             *)
(***************************************************************************)
EXTENDS Integers, Sequences, FiniteSets, TLC

VARIABLES
  users, plantAnalyses, diseaseReports, userFeedback, \* MemStorage maps, id -> record
  currentUserId, currentAnalysisId, currentReportId, currentFeedbackId,
  db,          \* the database tables DatabaseStorage reads and writes
  now,         \* the clock read by new Date()
  last,        \* the IStorage create call of the last operation: name, argument, result
  content,     \* what the chat completion of the last analysis produced
  detection,   \* what analyzePlantImage returned or threw for it
  storage,     \* which IStorage implementation the routes are bound to
  session,     \* the session store: session id -> userId
  inflight,    \* per session, the signup request suspended at an await
  res          \* the last HTTP response sent

memVars == <<users, plantAnalyses, diseaseReports, userFeedback,
             currentUserId, currentAnalysisId, currentReportId, currentFeedbackId>>
aiVars == <<content, detection>>
routeVars == <<storage, session, inflight, res>>
vars == <<memVars, db, now, last, aiVars, routeVars>>

(***************************************************************************)
(* Bounds of the model.                                                    *)
(***************************************************************************)
MaxCreates == 3      \* create calls in SpecStore
MaxTime == 2         \* clock ticks
MaxStored == 3       \* users and records created through the routes

(***************************************************************************)
(* JavaScript values.  A value carries its type tag, so that undefined,    *)
(* null, the string 'null', 0 and NaN stay distinct.  Numbers that are     *)
(* fractions in the program (confidence) are kept in tenths.               *)
(***************************************************************************)
Undefined == [t |-> "undefined"]
Null == [t |-> "null"]
NaN == [t |-> "NaN"]
Obj == [t |-> "object"]
Str(s) == [t |-> "string", v |-> s]
Num(n) == [t |-> "number", v |-> n]
Bool(b) == [t |-> "boolean", v |-> b]
Date(ms) == [t |-> "Date", v |-> ms]

\* obj.k : undefined when the property is missing
Get(obj, k) == IF k \in DOMAIN obj THEN obj[k] ELSE Undefined

\* a ?? b
Coalesce(a, b) == IF a = Undefined \/ a = Null THEN b ELSE a

\* ToBoolean(v)
Truthy(v) ==
  CASE v.t = "undefined" -> FALSE
    [] v.t = "null" -> FALSE
    [] v.t = "NaN" -> FALSE
    [] v.t = "number" -> v.v # 0
    [] v.t = "string" -> v.v # ""
    [] v.t = "boolean" -> v.v
    [] OTHER -> TRUE

\* a || b
Or(a, b) == IF Truthy(a) THEN a ELSE b

LowerChar(c) ==
  CASE c = "A" -> "a" [] c = "B" -> "b" [] c = "G" -> "g" [] c = "O" -> "o"
    [] c = "R" -> "r" [] OTHER -> c

RECURSIVE toLowerCase(_)
toLowerCase(s) ==
  IF Len(s) = 0 THEN s
  ELSE LowerChar(SubSeq(s, 1, 1)) \o toLowerCase(SubSeq(s, 2, Len(s)))

\* hay.includes(needle)
includes(hay, needle) ==
  \/ Len(needle) = 0
  \/ \E i \in 1..(Len(hay) - Len(needle) + 1) : SubSeq(hay, i, i + Len(needle) - 1) = needle

Range(f) == {f[x] : x \in DOMAIN f}

\* b.createdAt?.getTime() || 0
getTime(r) == IF Get(r, "createdAt").t = "Date" THEN r.createdAt.v ELSE 0

\* Inserts r into an array already sorted newest first, after every element
\* the comparator does not put behind it (the sort is stable).
RECURSIVE insertSorted(_, _)
insertSorted(sorted, r) ==
  IF sorted = <<>> THEN <<r>>
  ELSE IF getTime(r) - getTime(Head(sorted)) > 0
       THEN <<r>> \o sorted
       ELSE <<Head(sorted)>> \o insertSorted(Tail(sorted), r)

\* arr.sort((a, b) => (b.createdAt?.getTime() || 0) - (a.createdAt?.getTime() || 0))
RECURSIVE sortNewestFirst(_)
sortNewestFirst(arr) ==
  IF arr = <<>> THEN <<>>
  ELSE insertSorted(sortNewestFirst(SubSeq(arr, 1, Len(arr) - 1)), arr[Len(arr)])

\* Array.from(map.values()): insertion order, which is id order because ids
\* only grow and no entry is ever deleted
RECURSIVE ascending(_)
ascending(ids) ==
  IF ids = {} THEN <<>>
  ELSE LET m == CHOOSE i \in ids : \A j \in ids : i <= j
       IN <<m>> \o ascending(ids \ {m})

values(map) == LET ids == ascending(DOMAIN map) IN [i \in 1..Len(ids) |-> map[ids[i]]]

(***************************************************************************)
(* MemStorage (storage.ts 26-137).  Each create is given as the outcome of *)
(* the call on the current state: the record returned, the map after       *)
(* set(id, record) and the counter after the post-increment.               *)
(***************************************************************************)
\* Map.get(key): undefined when no entry has that key (NaN never is a key here)
MemStorage_getUser(id) ==
  IF id.t = "number" /\ id.v \in DOMAIN users THEN users[id.v] ELSE Undefined

\* Array.prototype.find: the first match in insertion order
MemStorage_getUserByUsername(username) ==
  LET found == SelectSeq(values(users), LAMBDA user : Get(user, "username") = username)
  IN IF found = <<>> THEN Undefined ELSE Head(found)

MemStorage_createUser(insertUser) ==
  LET id == currentUserId
      user == [id |-> Num(id),
               createdAt |-> Date(now),
               email |-> Coalesce(Get(insertUser, "email"), Null),
               firstName |-> Coalesce(Get(insertUser, "firstName"), Null),
               lastName |-> Coalesce(Get(insertUser, "lastName"), Null)] @@ insertUser
  IN [ret |-> user, map |-> (id :> user) @@ users, next |-> currentUserId + 1]

\* createPlantAnalysis with the counter read but not incremented
createPlantAnalysis_NoIncrement(insertAnalysis) ==
  LET id == currentAnalysisId
      analysis == [id |-> Num(id),
                   createdAt |-> Date(now),
                   description |-> Coalesce(Get(insertAnalysis, "description"), Null),
                   severity |-> Coalesce(Get(insertAnalysis, "severity"), Null),
                   treatment |-> Coalesce(Get(insertAnalysis, "treatment"), Null),
                   isHealthy |-> Coalesce(Get(insertAnalysis, "isHealthy"), Bool(FALSE))]
                  @@ insertAnalysis
  IN [ret |-> analysis, map |-> (id :> analysis) @@ plantAnalyses,
      next |-> currentAnalysisId]

MemStorage_createPlantAnalysis(insertAnalysis) ==
  LET id == currentAnalysisId
      analysis == [id |-> Num(id),
                   createdAt |-> Date(now),
                   description |-> Coalesce(Get(insertAnalysis, "description"), Null),
                   severity |-> Coalesce(Get(insertAnalysis, "severity"), Null),
                   treatment |-> Coalesce(Get(insertAnalysis, "treatment"), Null),
                   isHealthy |-> Coalesce(Get(insertAnalysis, "isHealthy"), Bool(FALSE))]
                  @@ insertAnalysis
  IN [ret |-> analysis, map |-> (id :> analysis) @@ plantAnalyses,
      next |-> currentAnalysisId + 1]

MemStorage_getPlantAnalysesByUser(userId) ==
  sortNewestFirst(SelectSeq(values(plantAnalyses),
                            LAMBDA analysis : Get(analysis, "userId") = userId))

MemStorage_getPlantAnalysisById(id) ==
  IF id.t = "number" /\ id.v \in DOMAIN plantAnalyses THEN plantAnalyses[id.v] ELSE Undefined

\* createDiseaseReport with the argument spread after the computed fields
createDiseaseReport_SpreadLast(insertReport) ==
  LET id == currentReportId
      report == insertReport @@
                [id |-> Num(id),
                 createdAt |-> Date(now),
                 description |-> Coalesce(Get(insertReport, "description"), Null),
                 latitude |-> Coalesce(Get(insertReport, "latitude"), Null),
                 longitude |-> Coalesce(Get(insertReport, "longitude"), Null)]
  IN [ret |-> report, map |-> (id :> report) @@ diseaseReports,
      next |-> currentReportId + 1]

MemStorage_createDiseaseReport(insertReport) ==
  LET id == currentReportId
      report == [id |-> Num(id),
                 createdAt |-> Date(now),
                 description |-> Coalesce(Get(insertReport, "description"), Null),
                 latitude |-> Coalesce(Get(insertReport, "latitude"), Null),
                 longitude |-> Coalesce(Get(insertReport, "longitude"), Null)]
                @@ insertReport
  IN [ret |-> report, map |-> (id :> report) @@ diseaseReports,
      next |-> currentReportId + 1]

MemStorage_getDiseaseReports == sortNewestFirst(values(diseaseReports))

MemStorage_getDiseaseReportsByLocation(location) ==
  sortNewestFirst(SelectSeq(values(diseaseReports),
    LAMBDA report : includes(toLowerCase(report.location.v), toLowerCase(location))))

MemStorage_createUserFeedback(insertFeedback) ==
  LET id == currentFeedbackId
      feedback == [id |-> Num(id),
                   createdAt |-> Date(now),
                   comment |-> Coalesce(Get(insertFeedback, "comment"), Null)]
                  @@ insertFeedback
  IN [ret |-> feedback, map |-> (id :> feedback) @@ userFeedback,
      next |-> currentFeedbackId + 1]

MemStorage_getFeedbackByAnalysis(analysisId) ==
  SelectSeq(values(userFeedback),
            LAMBDA feedback : Get(feedback, "analysisId") = analysisId)

(***************************************************************************)
(* The database behind DatabaseStorage (./db and @shared/schema).  A table *)
(* is the sequence of its rows in insertion order.  An insert gives the    *)
(* row the next serial id and the column defaults; a select without ORDER  *)
(* BY returns the matching rows in an order the database chooses.          *)
(***************************************************************************)
userColumns == {"username", "password", "email", "firstName", "lastName"}
analysisColumns == {"userId", "imagePath", "diagnosis", "confidence", "severity",
                    "isHealthy", "description", "treatment"}
reportColumns == {"userId", "location", "description", "latitude", "longitude"}
feedbackColumns == {"userId", "analysisId", "comment"}

columnDefault(column) == IF column = "isHealthy" THEN Bool(FALSE) ELSE Null

\* db.insert(table).values(v).returning()
dbInsert(table, columns, v) ==
  LET row == [id |-> Num(Len(table) + 1), createdAt |-> Date(now)]
             @@ [c \in columns |-> Coalesce(Get(v, c), columnDefault(c))]
  IN [ret |-> row, table |-> Append(table, row)]

\* db.select().from(table): every order of the rows is a possible result
dbSelect(rows) ==
  {[i \in 1..Len(rows) |-> rows[p[i]]] : p \in Permutations(1..Len(rows))}

\* result[0]
first(results) == {IF r = <<>> THEN Undefined ELSE Head(r) : r \in results}

(***************************************************************************)
(* DatabaseStorage (storage.ts 140-192).  A query is given as the set of   *)
(* results it may return.                                                  *)
(***************************************************************************)
DatabaseStorage_getUser(id) ==
  first(dbSelect(SelectSeq(db.users, LAMBDA row : row.id = id)))

DatabaseStorage_getUserByUsername(username) ==
  first(dbSelect(SelectSeq(db.users, LAMBDA row : row.username = username)))

DatabaseStorage_createUser(insertUser) == dbInsert(db.users, userColumns, insertUser)

DatabaseStorage_createPlantAnalysis(insertAnalysis) ==
  dbInsert(db.plantAnalyses, analysisColumns, insertAnalysis)

DatabaseStorage_getPlantAnalysesByUser(userId) ==
  dbSelect(SelectSeq(db.plantAnalyses, LAMBDA row : row.userId = userId))

DatabaseStorage_getPlantAnalysisById(id) ==
  first(dbSelect(SelectSeq(db.plantAnalyses, LAMBDA row : row.id = id)))

DatabaseStorage_createDiseaseReport(insertReport) ==
  dbInsert(db.diseaseReports, reportColumns, insertReport)

DatabaseStorage_getDiseaseReports == dbSelect(db.diseaseReports)

\* the location argument is not used
DatabaseStorage_getDiseaseReportsByLocation(location) == dbSelect(db.diseaseReports)

DatabaseStorage_createUserFeedback(insertFeedback) ==
  dbInsert(db.userFeedback, feedbackColumns, insertFeedback)

DatabaseStorage_getFeedbackByAnalysis(analysisId) ==
  dbSelect(SelectSeq(db.userFeedback, LAMBDA row : row.analysisId = analysisId))

(***************************************************************************)
(* IStorage create calls (storage.ts 5-24) as actions.  `on` is the set of *)
(* implementations the call is made on.                                    *)
(***************************************************************************)
\* the session ids (cookies) of the browsers in the model
Sessions == {"s1", "s2"}

Mem == "MemStorage"
Db == "DatabaseStorage"

returned(on, m, d) ==
  [mem |-> IF Mem \in on THEN m.ret ELSE Undefined,
   row |-> IF Db \in on THEN d.ret ELSE Undefined]

createUser(on, insertUser) ==
  LET m == MemStorage_createUser(insertUser)
      d == DatabaseStorage_createUser(insertUser)
  IN /\ users' = IF Mem \in on THEN m.map ELSE users
     /\ currentUserId' = IF Mem \in on THEN m.next ELSE currentUserId
     /\ db' = IF Db \in on THEN [db EXCEPT !.users = d.table] ELSE db
     /\ last' = [call |-> "createUser", arg |-> insertUser] @@ returned(on, m, d)
     /\ UNCHANGED <<plantAnalyses, diseaseReports, userFeedback,
                    currentAnalysisId, currentReportId, currentFeedbackId>>

createPlantAnalysis(on, insertAnalysis) ==
  LET m == MemStorage_createPlantAnalysis(insertAnalysis)
      d == DatabaseStorage_createPlantAnalysis(insertAnalysis)
  IN /\ plantAnalyses' = IF Mem \in on THEN m.map ELSE plantAnalyses
     /\ currentAnalysisId' = IF Mem \in on THEN m.next ELSE currentAnalysisId
     /\ db' = IF Db \in on THEN [db EXCEPT !.plantAnalyses = d.table] ELSE db
     /\ last' = [call |-> "createPlantAnalysis", arg |-> insertAnalysis]
                @@ returned(on, m, d)
     /\ UNCHANGED <<users, diseaseReports, userFeedback,
                    currentUserId, currentReportId, currentFeedbackId>>

createDiseaseReport(on, insertReport) ==
  LET m == MemStorage_createDiseaseReport(insertReport)
      d == DatabaseStorage_createDiseaseReport(insertReport)
  IN /\ diseaseReports' = IF Mem \in on THEN m.map ELSE diseaseReports
     /\ currentReportId' = IF Mem \in on THEN m.next ELSE currentReportId
     /\ db' = IF Db \in on THEN [db EXCEPT !.diseaseReports = d.table] ELSE db
     /\ last' = [call |-> "createDiseaseReport", arg |-> insertReport]
                @@ returned(on, m, d)
     /\ UNCHANGED <<users, plantAnalyses, userFeedback,
                    currentUserId, currentAnalysisId, currentFeedbackId>>

createUserFeedback(on, insertFeedback) ==
  LET m == MemStorage_createUserFeedback(insertFeedback)
      d == DatabaseStorage_createUserFeedback(insertFeedback)
  IN /\ userFeedback' = IF Mem \in on THEN m.map ELSE userFeedback
     /\ currentFeedbackId' = IF Mem \in on THEN m.next ELSE currentFeedbackId
     /\ db' = IF Db \in on THEN [db EXCEPT !.userFeedback = d.table] ELSE db
     /\ last' = [call |-> "createUserFeedback", arg |-> insertFeedback]
                @@ returned(on, m, d)
     /\ UNCHANGED <<users, plantAnalyses, diseaseReports,
                    currentUserId, currentAnalysisId, currentReportId>>

\* new Date() never reads an earlier time than the previous call did
Tick ==
  /\ now < MaxTime
  /\ now' = now + 1
  /\ UNCHANGED <<memVars, db, last, aiVars, routeVars>>

(***************************************************************************)
(* Initial state: the MemStorage constructor (storage.ts 36-45), empty     *)
(* tables, no request made.                                                *)
(***************************************************************************)
InitStorage ==
  /\ users = <<>> /\ plantAnalyses = <<>> /\ diseaseReports = <<>> /\ userFeedback = <<>>
  /\ currentUserId = 1 /\ currentAnalysisId = 1
  /\ currentReportId = 1 /\ currentFeedbackId = 1
  /\ db = [users |-> <<>>, plantAnalyses |-> <<>>, diseaseReports |-> <<>>,
           userFeedback |-> <<>>]
  /\ now = 0
  /\ last = [call |-> "none"]

NoAI == content = [kind |-> "none"] /\ detection = [kind |-> "none"]

NoRoutes ==
  /\ storage = Db
  /\ session = [s \in Sessions |-> Undefined]
  /\ inflight = [s \in Sessions |-> [at |-> "idle"]]
  /\ res = [route |-> "none"]

(***************************************************************************)
(* SpecStore: the same sequence of create calls made on a MemStorage and   *)
(* on a DatabaseStorage.                                                   *)
(***************************************************************************)
InsertUsers ==
  {[username |-> Str("a"), password |-> Str("p")],
   [username |-> Str("b"), password |-> Str("p"), email |-> Str("e"),
    firstName |-> Str("f"), lastName |-> Str("l")],
   [username |-> Str("c"), password |-> Str("q"), email |-> Null,
    firstName |-> Undefined, id |-> Num(7)]}

InsertPlantAnalyses ==
  {[userId |-> Num(1), imagePath |-> Str("/uploads/x"), diagnosis |-> Str("Leaf Spot"),
    confidence |-> Num(9)],
   [userId |-> Num(2), imagePath |-> Str("/uploads/y"), diagnosis |-> Str("Healthy"),
    confidence |-> Num(10), severity |-> Str("low"), isHealthy |-> Bool(TRUE),
    description |-> Str("d"), treatment |-> Str("t")],
   [userId |-> Num(1), imagePath |-> Str("/uploads/x"), diagnosis |-> Str("Aloe Rust"),
    confidence |-> Num(0), severity |-> Null, isHealthy |-> Undefined,
    treatment |-> Str(""), id |-> Num(9)]}

InsertDiseaseReports ==
  {[userId |-> Num(1), location |-> Str("Goa")],
   [userId |-> Num(2), location |-> Str("Agra road"), description |-> Str("d"),
    latitude |-> Str("15.3"), longitude |-> Str("74.1")],
   [userId |-> Num(1), location |-> Str("goa"), description |-> Null,
    latitude |-> Undefined, id |-> Num(5)]}

InsertUserFeedbacks ==
  {[userId |-> Num(1), analysisId |-> Num(1)],
   [userId |-> Num(2), analysisId |-> Num(1), comment |-> Str("c"), id |-> Num(3)]}

Locations == {"", "go", "GOA", "ra r", "x"}

Both == {Mem, Db}

created == Len(db.users) + Len(db.plantAnalyses) + Len(db.diseaseReports)
           + Len(db.userFeedback)

\* createUser is called for a username only after getUserByUsername found none
\* (routes.ts 51-56)
StoreCreateUser ==
  /\ created < MaxCreates
  /\ \E insertUser \in InsertUsers :
       /\ MemStorage_getUserByUsername(insertUser.username) = Undefined
       /\ createUser(Both, insertUser)
  /\ UNCHANGED <<now, aiVars, routeVars>>

StoreCreatePlantAnalysis ==
  /\ created < MaxCreates
  /\ \E insertAnalysis \in InsertPlantAnalyses : createPlantAnalysis(Both, insertAnalysis)
  /\ UNCHANGED <<now, aiVars, routeVars>>

StoreCreateDiseaseReport ==
  /\ created < MaxCreates
  /\ \E insertReport \in InsertDiseaseReports : createDiseaseReport(Both, insertReport)
  /\ UNCHANGED <<now, aiVars, routeVars>>

StoreCreateUserFeedback ==
  /\ created < MaxCreates
  /\ \E insertFeedback \in InsertUserFeedbacks : createUserFeedback(Both, insertFeedback)
  /\ UNCHANGED <<now, aiVars, routeVars>>

InitStore == InitStorage /\ NoAI /\ NoRoutes

NextStore ==
  \/ StoreCreateUser
  \/ StoreCreatePlantAnalysis
  \/ StoreCreateDiseaseReport
  \/ StoreCreateUserFeedback
  \/ Tick

SpecStore == InitStore /\ [][NextStore]_vars

(***************************************************************************)
(* Claims about the storage layer, checked under SpecStore.                *)
(***************************************************************************)
mapOf(call) ==
  CASE call = "createUser" -> users
    [] call = "createPlantAnalysis" -> plantAnalyses
    [] call = "createDiseaseReport" -> diseaseReports
    [] call = "createUserFeedback" -> userFeedback

counterOf(call) ==
  CASE call = "createUser" -> currentUserId
    [] call = "createPlantAnalysis" -> currentAnalysisId
    [] call = "createDiseaseReport" -> currentReportId
    [] call = "createUserFeedback" -> currentFeedbackId

Calls == {"createUser", "createPlantAnalysis", "createDiseaseReport", "createUserFeedback"}

\* C4: per-row identity in MemStorage.  In every step that makes a create call
\* of some kind, the returned record's id is a positive integer greater than
\* every id issued before for that kind, the record is stored under exactly that
\* id, every record stored before is still stored unchanged, and the maps and
\* counters of the other three kinds are untouched; no step removes or changes
\* a stored record.
C4_PerRowIdentity ==
  [][\A call \in Calls :
       /\ \A id \in DOMAIN mapOf(call) :
            id \in DOMAIN mapOf(call)' /\ mapOf(call)'[id] = mapOf(call)[id]
       /\ (last' # last /\ last'.call = call) =>
            LET record == last'.mem
            IN /\ record.id.t = "number"
               /\ record.id.v \in Nat \ {0}
               /\ \A id \in DOMAIN mapOf(call) : id < record.id.v
               /\ DOMAIN mapOf(call)' = DOMAIN mapOf(call) \cup {record.id.v}
               /\ mapOf(call)'[record.id.v] = record
               /\ \A other \in Calls \ {call} :
                    /\ mapOf(other)' = mapOf(other)
                    /\ counterOf(other)' = counterOf(other)]_vars

\* C4 witness: a second plant analysis has just been created while one user
\* exists, so the analysis counter and the user counter have moved apart.
C4_Witness ==
  /\ last.call = "createPlantAnalysis"
  /\ last.mem.id = Num(2)
  /\ DOMAIN plantAnalyses = {1, 2}
  /\ DOMAIN users = {1}
  /\ userFeedback = <<>>

defaultsOf(call) ==
  CASE call = "createUser" ->
         [email |-> Null, firstName |-> Null, lastName |-> Null]
    [] call = "createPlantAnalysis" ->
         [description |-> Null, severity |-> Null, treatment |-> Null,
          isHealthy |-> Bool(FALSE)]
    [] call = "createDiseaseReport" ->
         [description |-> Null, latitude |-> Null, longitude |-> Null]
    [] call = "createUserFeedback" -> [comment |-> Null]

\* C6: optional fields are defaulted at creation time in MemStorage.  The
\* record returned by the last create call has each optional field equal to the
\* supplied value, or to its default (null; false for isHealthy) when the field
\* is absent from the argument; every other supplied field is stored unchanged;
\* and its id is the allocated one (the counter's value before the call), under
\* which it is stored, whatever id the argument carries.
C6_DefaultsAtCreation ==
  last.call \in Calls =>
    LET arg == last.arg
        record == last.mem
        defaults == defaultsOf(last.call)
    IN /\ \A k \in DOMAIN defaults :
            record[k] = IF Get(arg, k) = Undefined THEN defaults[k] ELSE arg[k]
       /\ \A k \in DOMAIN arg \ (DOMAIN defaults \cup {"id", "createdAt"}) :
            record[k] = arg[k]
       /\ record.id = Num(counterOf(last.call) - 1)
       /\ mapOf(last.call)[counterOf(last.call) - 1] = record

\* C6 witness: a plant analysis was created from an argument that leaves
\* description out, passes isHealthy as undefined and carries an id of its own.
C6_Witness ==
  /\ last.call = "createPlantAnalysis"
  /\ "description" \notin DOMAIN last.arg
  /\ Get(last.arg, "isHealthy") = Undefined
  /\ Get(last.arg, "id") = Num(9)
  /\ last.mem.isHealthy = Bool(FALSE)
  /\ last.mem.description = Null

\* C8: MemStorage and DatabaseStorage are interchangeable.  After the same
\* sequence of create calls every query has, in DatabaseStorage, exactly one
\* possible result, the one MemStorage returns; so getDiseaseReportsByLocation
\* returns the reports whose location contains the query case-insensitively and
\* the list queries are ordered newest first in both.
C8_Interchangeable ==
  /\ \A id \in 1..(MaxCreates + 1) :
       /\ DatabaseStorage_getUser(Num(id)) = {MemStorage_getUser(Num(id))}
       /\ DatabaseStorage_getPlantAnalysisById(Num(id))
            = {MemStorage_getPlantAnalysisById(Num(id))}
       /\ DatabaseStorage_getPlantAnalysesByUser(Num(id))
            = {MemStorage_getPlantAnalysesByUser(Num(id))}
       /\ DatabaseStorage_getFeedbackByAnalysis(Num(id))
            = {MemStorage_getFeedbackByAnalysis(Num(id))}
  /\ \A name \in {"a", "b", "c"} :
       DatabaseStorage_getUserByUsername(Str(name)) = {MemStorage_getUserByUsername(Str(name))}
  /\ DatabaseStorage_getDiseaseReports = {MemStorage_getDiseaseReports}
  /\ \A location \in Locations :
       DatabaseStorage_getDiseaseReportsByLocation(location)
         = {MemStorage_getDiseaseReportsByLocation(location)}

(***************************************************************************)
(* analyzePlantImage (openai-service.ts 15-74).  `content` is what the     *)
(* chat completion produced: the API call failed, the content was empty,   *)
(* the content was not JSON, or it parsed to the object `result`.  A       *)
(* property the model left out of the object reads as undefined.           *)
(***************************************************************************)
\* ToNumber of a string: the numeric strings of the model, anything else is NaN
StringToNumber(s) ==
  CASE s = "0.9" -> Num(9)
    [] s = "2" -> Num(20)
    [] OTHER -> NaN

\* ToNumber(v), as Math.min and Math.max apply it to their arguments
ToNumber(v) ==
  CASE v.t = "number" -> v
    [] v.t = "string" -> IF v.v = "" THEN Num(0) ELSE StringToNumber(v.v)
    [] v.t = "boolean" -> IF v.v THEN Num(10) ELSE Num(0)
    [] v.t = "null" -> Num(0)
    [] OTHER -> NaN

Math_min(a, b) ==
  LET x == ToNumber(a)
      y == ToNumber(b)
  IN IF x = NaN \/ y = NaN THEN NaN ELSE IF x.v <= y.v THEN x ELSE y

Math_max(a, b) ==
  LET x == ToNumber(a)
      y == ToNumber(b)
  IN IF x = NaN \/ y = NaN THEN NaN ELSE IF x.v >= y.v THEN x ELSE y

One == Num(10)   \* 1, in tenths

analyzePlantImage(c) ==
  IF c.kind \in {"apiError", "invalidJSON"}
  THEN [kind |-> "thrown", message |-> "Failed to analyze plant image"]
  ELSE LET result == IF c.kind = "empty" THEN [x \in {} |-> Undefined] ELSE c.result
       IN [kind |-> "returned",
           value |->
             [disease |-> Or(Get(result, "disease"), Str("Unknown")),
              confidence |-> Math_max(Num(0), Math_min(One, Or(Get(result, "confidence"), Num(0)))),
              severity |-> IF Get(result, "severity") = Str("null")
                           THEN Null ELSE Get(result, "severity"),
              isHealthy |-> Bool(Get(result, "isHealthy") = Bool(TRUE)),
              description |-> Or(Get(result, "description"), Str("No description available")),
              treatment |-> Or(Get(result, "treatment"),
                               Str("No treatment recommendations available"))]]

(***************************************************************************)
(* SpecAI: analyzePlantImage applied to one completion.                    *)
(***************************************************************************)
Results ==
  [disease : {Undefined, Null, Str(""), Str("Leaf Spot"), Num(3)},
   confidence : {Undefined, Null, Num(0), Num(9), Num(10), Num(15), Num(-5),
                 Str("0.9"), Str("high"), Bool(TRUE)},
   severity : {Undefined, Null, Str("null"), Str("low"), Str("moderate"), Str("high"),
               Str("severe")},
   isHealthy : {Undefined, Bool(TRUE), Bool(FALSE), Str("true")},
   description : {Undefined, Str(""), Str("spots"), Obj},
   treatment : {Undefined, Str("prune"), Num(0)}]

Contents ==
  {[kind |-> "apiError"], [kind |-> "invalidJSON"], [kind |-> "empty"]}
  \cup {[kind |-> "object", result |-> r] : r \in Results}

InitAI ==
  /\ InitStorage /\ NoRoutes
  /\ content \in Contents
  /\ detection = [kind |-> "none"]

Analyze ==
  /\ detection.kind = "none"
  /\ detection' = analyzePlantImage(content)
  /\ UNCHANGED <<memVars, db, now, last, content, routeVars>>

NextAI == Analyze

SpecAI == InitAI /\ [][NextAI]_vars

Severities == {Str("low"), Str("moderate"), Str("high"), Null}

\* C7: every DiseaseDetectionResult returned for a parsed JSON object is
\* well-formed: disease is a non-empty string ("Unknown" when missing),
\* confidence is a number in 0..1 (0 when missing), severity is 'low',
\* 'moderate', 'high' or null, isHealthy is a boolean that is true only when the
\* model returned the boolean true, and description and treatment are non-empty
\* strings.
C7_WellFormedResult ==
  (content.kind = "object" /\ detection.kind = "returned") =>
    LET result == content.result
        value == detection.value
    IN /\ value.disease.t = "string" /\ value.disease.v # ""
       /\ result.disease = Undefined => value.disease = Str("Unknown")
       /\ value.confidence.t = "number"
       /\ value.confidence.v >= 0 /\ value.confidence.v <= 10
       /\ result.confidence = Undefined => value.confidence = Num(0)
       /\ value.severity \in Severities
       /\ value.isHealthy.t = "boolean"
       /\ value.isHealthy.v <=> (result.isHealthy = Bool(TRUE))
       /\ value.description.t = "string" /\ value.description.v # ""
       /\ value.treatment.t = "string" /\ value.treatment.v # ""

(***************************************************************************)
(* The routes (routes.ts 28-204).  `storage` is the IStorage the routes    *)
(* are bound to (storage.ts 194 binds a DatabaseStorage; MemStorage is the *)
(* other implementation of the interface).  A read is the set of results   *)
(* the bound implementation may return.                                    *)
(***************************************************************************)
IStorage_getUser(id) ==
  IF storage = Mem THEN {MemStorage_getUser(id)} ELSE DatabaseStorage_getUser(id)

IStorage_getUserByUsername(username) ==
  IF storage = Mem THEN {MemStorage_getUserByUsername(username)}
  ELSE DatabaseStorage_getUserByUsername(username)

IStorage_getPlantAnalysesByUser(userId) ==
  IF storage = Mem THEN {MemStorage_getPlantAnalysesByUser(userId)}
  ELSE DatabaseStorage_getPlantAnalysesByUser(userId)

IStorage_getPlantAnalysisById(id) ==
  IF storage = Mem THEN {MemStorage_getPlantAnalysisById(id)}
  ELSE DatabaseStorage_getPlantAnalysisById(id)

IStorage_getDiseaseReports ==
  IF storage = Mem THEN {MemStorage_getDiseaseReports} ELSE DatabaseStorage_getDiseaseReports

\* the record a create call on the bound storage returned
ret(call) == IF storage = Mem THEN call.mem ELSE call.row

storedUsers == IF storage = Mem THEN Range(users) ELSE Range(db.users)
storedAnalyses == IF storage = Mem THEN Range(plantAnalyses) ELSE Range(db.plantAnalyses)
storedReports == IF storage = Mem THEN Range(diseaseReports) ELSE Range(db.diseaseReports)
storedFeedback == IF storage = Mem THEN Range(userFeedback) ELSE Range(db.userFeedback)

nStored ==
  Cardinality(storedUsers) + Cardinality(storedAnalyses) + Cardinality(storedReports)
  + Cardinality(storedFeedback)

suspended == {s \in Sessions : inflight[s].at = "createUser"}

storeVars == <<memVars, db, last>>

\* res.status(status).json(...) for the request `req` of session s: the
\* response, with the userId the request's session held when it was handled
\* and the storage calls the handler made
respond(route, s, req, status, message, body, calls) ==
  res' = [route |-> route, s |-> s, userId |-> session[s], req |-> req,
          status |-> status, message |-> message, body |-> body, calls |-> calls]

NoBody == <<>>

\* `last`, `content` and `detection` belong to the request being answered: a
\* handler that makes no create call, or no AI call, leaves none behind
noCreate == UNCHANGED <<memVars, db>> /\ last' = [call |-> "none"]
noAnalysis == content' = [kind |-> "none"] /\ detection' = [kind |-> "none"]

\* { ...user, password: undefined }
withoutPassword(user) == [user EXCEPT !.password = Undefined]

(***************************************************************************)
(* The request schemas of @shared/schema: a parse either throws or returns *)
(* the fields the schema knows, unknown keys stripped.                     *)
(***************************************************************************)
isString(v) == v.t = "string"
isNumber(v) == v.t = "number"

pick(obj, keys) == [k \in DOMAIN obj \cap keys |-> obj[k]]

signinSchema_parse(body) ==
  IF isString(Get(body, "username")) /\ isString(Get(body, "password"))
  THEN [ok |-> TRUE, data |-> pick(body, {"username", "password"})]
  ELSE [ok |-> FALSE]

signupSchema_parse(body) ==
  IF /\ isString(Get(body, "username")) /\ isString(Get(body, "password"))
     /\ isString(Get(body, "confirmPassword"))
  THEN [ok |-> TRUE, data |-> pick(body, userColumns \cup {"confirmPassword"})]
  ELSE [ok |-> FALSE]

insertDiseaseReportSchema_parse(obj) ==
  IF isString(Get(obj, "location")) /\ isNumber(Get(obj, "userId"))
  THEN [ok |-> TRUE, data |-> pick(obj, reportColumns)]
  ELSE [ok |-> FALSE]

insertUserFeedbackSchema_parse(obj) ==
  IF isNumber(Get(obj, "analysisId")) /\ isNumber(Get(obj, "userId"))
  THEN [ok |-> TRUE, data |-> pick(obj, feedbackColumns)]
  ELSE [ok |-> FALSE]

(***************************************************************************)
(* Auth routes.                                                            *)
(***************************************************************************)
\* the credentials check without the password comparison
invalidCredentials_UserOnly(user, password) == user = Undefined

\* !user || user.password !== password
invalidCredentials(user, password) == user = Undefined \/ user.password # password

POST_auth_signin(s, body) ==
  LET parsed == signinSchema_parse(body)
  IN /\ IF ~parsed.ok
        THEN /\ respond("POST /api/auth/signin", s, body, 400, "Invalid request", NoBody, <<>>)
             /\ UNCHANGED session
        ELSE \E user \in IStorage_getUserByUsername(parsed.data.username) :
               IF invalidCredentials(user, parsed.data.password)
               THEN /\ respond("POST /api/auth/signin", s, body, 401, "Invalid credentials",
                               NoBody, <<"getUserByUsername">>)
                    /\ UNCHANGED session
               ELSE /\ session' = [session EXCEPT ![s] = user.id]
                    /\ respond("POST /api/auth/signin", s, body, 200, "",
                               <<withoutPassword(user)>>, <<"getUserByUsername">>)
     /\ noCreate /\ noAnalysis /\ UNCHANGED <<now, storage, inflight>>

\* const user = await storage.createUser(userData); req.session.userId = user.id;
\* res.json(...)
signupCreate(s, body, userData) ==
  /\ createUser({storage}, userData)
  /\ session' = [session EXCEPT ![s] = ret(last').id]
  /\ respond("POST /api/auth/signup", s, body, 200, "", <<withoutPassword(ret(last'))>>,
             <<"getUserByUsername", "createUser">>)
  /\ inflight' = [inflight EXCEPT ![s] = [at |-> "idle"]]

\* The handler up to the result of getUserByUsername.  On a MemStorage both
\* awaits resolve without leaving the microtask queue, so no other request runs
\* before createUser; on a DatabaseStorage the handler is suspended on the
\* database between the lookup and the insert.
POST_auth_signup(s, body) ==
  LET parsed == signupSchema_parse(body)
      userData == pick(parsed.data, DOMAIN parsed.data \ {"confirmPassword"})
  IN /\ inflight[s].at = "idle"
     /\ IF ~parsed.ok
        THEN /\ respond("POST /api/auth/signup", s, body, 400, "Invalid request", NoBody, <<>>)
             /\ noCreate /\ UNCHANGED <<session, inflight>>
        ELSE \E existingUser \in IStorage_getUserByUsername(userData.username) :
               IF existingUser # Undefined
               THEN /\ respond("POST /api/auth/signup", s, body, 400,
                               "Username already exists", NoBody, <<"getUserByUsername">>)
                    /\ noCreate /\ UNCHANGED <<session, inflight>>
               ELSE /\ nStored + Cardinality(suspended) < MaxStored
                    /\ IF storage = Mem
                       THEN signupCreate(s, body, userData)
                       ELSE /\ inflight' = [inflight EXCEPT ![s] =
                                 [at |-> "createUser", body |-> body, userData |-> userData]]
                            /\ UNCHANGED <<storeVars, session, res>>
     /\ IF res' = res THEN UNCHANGED aiVars ELSE noAnalysis
     /\ UNCHANGED <<now, storage>>

\* the rest of the signup handler, once the lookup has answered
POST_auth_signup_resume(s) ==
  /\ inflight[s].at = "createUser"
  /\ signupCreate(s, inflight[s].body, inflight[s].userData)
  /\ noAnalysis /\ UNCHANGED <<now, storage>>

POST_auth_signout(s) ==
  /\ session' = [session EXCEPT ![s] = Undefined]
  /\ respond("POST /api/auth/signout", s, <<>>, 200, "Signed out successfully", NoBody, <<>>)
  /\ noCreate /\ noAnalysis /\ UNCHANGED <<now, storage, inflight>>

GET_auth_user(s) ==
  /\ IF ~Truthy(session[s])
     THEN respond("GET /api/auth/user", s, <<>>, 401, "Not authenticated", NoBody, <<>>)
     ELSE \E user \in IStorage_getUser(session[s]) :
            IF user = Undefined
            THEN respond("GET /api/auth/user", s, <<>>, 401, "User not found", NoBody,
                         <<"getUser">>)
            ELSE respond("GET /api/auth/user", s, <<>>, 200, "", <<withoutPassword(user)>>,
                         <<"getUser">>)
  /\ noCreate /\ noAnalysis /\ UNCHANGED <<now, storage, session, inflight>>

(***************************************************************************)
(* Data routes.                                                            *)
(***************************************************************************)
\* the object with the result's disease and description in each other's place
analysisValues_Swapped(userId, file, aiResult) ==
  [userId |-> userId,
   imagePath |-> Str("/uploads/" \o file.originalname),
   diagnosis |-> aiResult.description,
   confidence |-> aiResult.confidence,
   severity |-> aiResult.severity,
   isHealthy |-> aiResult.isHealthy,
   description |-> aiResult.disease,
   treatment |-> aiResult.treatment]

\* the object passed to storage.createPlantAnalysis (routes.ts 101-110)
analysisValues(userId, file, aiResult) ==
  [userId |-> userId,
   imagePath |-> Str("/uploads/" \o file.originalname),
   diagnosis |-> aiResult.disease,
   confidence |-> aiResult.confidence,
   severity |-> aiResult.severity,
   isHealthy |-> aiResult.isHealthy,
   description |-> aiResult.description,
   treatment |-> aiResult.treatment]

POST_analyses(s, file, c) ==
  /\ IF ~Truthy(session[s])
     THEN /\ respond("POST /api/analyses", s, [file |-> file], 401, "Not authenticated",
                     NoBody, <<>>)
          /\ noCreate /\ noAnalysis
     ELSE IF file = Undefined
     THEN /\ respond("POST /api/analyses", s, [file |-> file], 400, "No image file provided",
                     NoBody, <<>>)
          /\ noCreate /\ noAnalysis
     ELSE LET aiResult == analyzePlantImage(c)
          IN /\ content' = c
             /\ detection' = aiResult
             /\ IF aiResult.kind = "thrown"
                THEN /\ respond("POST /api/analyses", s, [file |-> file], 500,
                                "Failed to analyze image: " \o aiResult.message, NoBody, <<>>)
                     /\ noCreate
                ELSE /\ nStored + Cardinality(suspended) < MaxStored
                     /\ createPlantAnalysis({storage},
                                            analysisValues(session[s], file, aiResult.value))
                     /\ respond("POST /api/analyses", s, [file |-> file], 200, "", <<ret(last')>>,
                                <<"createPlantAnalysis">>)
  /\ UNCHANGED <<now, storage, session, inflight>>

GET_analyses(s) ==
  /\ IF ~Truthy(session[s])
     THEN respond("GET /api/analyses", s, <<>>, 401, "Not authenticated", NoBody, <<>>)
     ELSE \E analyses \in IStorage_getPlantAnalysesByUser(session[s]) :
            respond("GET /api/analyses", s, <<>>, 200, "", analyses,
                    <<"getPlantAnalysesByUser">>)
  /\ noCreate /\ noAnalysis /\ UNCHANGED <<now, storage, session, inflight>>

\* parseInt(req.params.id)
parseInt(param) ==
  CASE param = "1" -> Num(1)
    [] param = "2x" -> Num(2)
    [] OTHER -> NaN

\* the not-found check without the owner comparison
notFound_ExistsOnly(analysis, userId) == analysis = Undefined

\* !analysis || analysis.userId !== req.session.userId
notFound(analysis, userId) == analysis = Undefined \/ analysis.userId # userId

GET_analyses_id(s, param) ==
  /\ IF ~Truthy(session[s])
     THEN respond("GET /api/analyses/:id", s, [id |-> param], 401, "Not authenticated",
                  NoBody, <<>>)
     ELSE \E analysis \in IStorage_getPlantAnalysisById(parseInt(param)) :
            IF notFound(analysis, session[s])
            THEN respond("GET /api/analyses/:id", s, [id |-> param], 404,
                         "Analysis not found", NoBody, <<"getPlantAnalysisById">>)
            ELSE respond("GET /api/analyses/:id", s, [id |-> param], 200, "", <<analysis>>,
                         <<"getPlantAnalysisById">>)
  /\ noCreate /\ noAnalysis /\ UNCHANGED <<now, storage, session, inflight>>

\* the object with the body spread after the session's userId
reportInput_BodyLast(body, userId) == body @@ [userId |-> userId]

\* { ...req.body, userId: req.session.userId } (routes.ts 148-151)
reportInput(body, userId) == [userId |-> userId] @@ body

POST_disease_reports(s, body) ==
  /\ IF ~Truthy(session[s])
     THEN /\ respond("POST /api/disease-reports", s, body, 401, "Not authenticated",
                     NoBody, <<>>)
          /\ noCreate
     ELSE LET parsed == insertDiseaseReportSchema_parse(reportInput(body, session[s]))
          IN IF ~parsed.ok
             THEN /\ respond("POST /api/disease-reports", s, body, 400, "Invalid request",
                             NoBody, <<>>)
                  /\ noCreate
             ELSE /\ nStored + Cardinality(suspended) < MaxStored
                  /\ createDiseaseReport({storage}, parsed.data)
                  /\ respond("POST /api/disease-reports", s, body, 200, "", <<ret(last')>>,
                             <<"createDiseaseReport">>)
  /\ noAnalysis /\ UNCHANGED <<now, storage, session, inflight>>

GET_disease_reports(s) ==
  /\ \E reports \in IStorage_getDiseaseReports :
       respond("GET /api/disease-reports", s, <<>>, 200, "", reports, <<"getDiseaseReports">>)
  /\ noCreate /\ noAnalysis /\ UNCHANGED <<now, storage, session, inflight>>

\* { ...req.body, userId: req.session.userId } (routes.ts 172-175)
feedbackInput(body, userId) == [userId |-> userId] @@ body

POST_feedback(s, body) ==
  /\ IF ~Truthy(session[s])
     THEN /\ respond("POST /api/feedback", s, body, 401, "Not authenticated", NoBody, <<>>)
          /\ noCreate
     ELSE LET parsed == insertUserFeedbackSchema_parse(feedbackInput(body, session[s]))
          IN IF ~parsed.ok
             THEN /\ respond("POST /api/feedback", s, body, 400, "Invalid request",
                             NoBody, <<>>)
                  /\ noCreate
             ELSE /\ nStored + Cardinality(suspended) < MaxStored
                  /\ createUserFeedback({storage}, parsed.data)
                  /\ respond("POST /api/feedback", s, body, 200, "", <<ret(last')>>,
                             <<"createUserFeedback">>)
  /\ noAnalysis /\ UNCHANGED <<now, storage, session, inflight>>

\* the statistics computed from the user's analyses (routes.ts 190-199)
stats(analyses) ==
  LET healthyCount == Len(SelectSeq(analyses, LAMBDA a : Truthy(a.isHealthy)))
      diseasedCount == Len(analyses) - healthyCount
  IN [totalAnalyzed |-> Num(Len(analyses)),
      healthyPlants |-> Num(healthyCount),
      diseasesDetected |-> Num(diseasedCount),
      daysActive |-> Num(15)]

GET_stats(s) ==
  /\ IF ~Truthy(session[s])
     THEN respond("GET /api/stats", s, <<>>, 401, "Not authenticated", NoBody, <<>>)
     ELSE \E analyses \in IStorage_getPlantAnalysesByUser(session[s]) :
            respond("GET /api/stats", s, <<>>, 200, "", <<stats(analyses)>>,
                    <<"getPlantAnalysesByUser">>)
  /\ noCreate /\ noAnalysis /\ UNCHANGED <<now, storage, session, inflight>>

(***************************************************************************)
(* Spec: requests arriving on the sessions, in any order.                  *)
(***************************************************************************)
SigninBodies ==
  {[username |-> Str("a"), password |-> Str("p")],
   [username |-> Str("a"), password |-> Str("q")],
   [username |-> Str("b"), password |-> Str("p")],
   [username |-> Str("a")]}

SignupBodies ==
  {[username |-> Str("a"), password |-> Str("p"), confirmPassword |-> Str("p")],
   [username |-> Str("b"), password |-> Str("p"), confirmPassword |-> Str("p"),
    email |-> Str("e")],
   [username |-> Str("a"), password |-> Str("p")]}


RouteContents ==
  {[kind |-> "apiError"],
   [kind |-> "empty"],
   [kind |-> "object",
    result |-> [disease |-> Str("Healthy"), confidence |-> Num(15), severity |-> Str("null"),
                isHealthy |-> Bool(TRUE), description |-> Str("spots"),
                treatment |-> Undefined]]}

\* an upload without a file, or a file and what the model answers for it
Uploads ==
  {[file |-> Undefined, content |-> [kind |-> "none"]]}
  \cup {[file |-> [originalname |-> "x"], content |-> c] : c \in RouteContents}

IdParams == {"1", "2x", "abc"}

ReportBodies ==
  {[location |-> Str("Goa"), userId |-> Num(2), id |-> Num(9)],
   [description |-> Str("d"), userId |-> Num(1)]}

FeedbackBodies ==
  {[analysisId |-> Num(1), userId |-> Num(2)],
   [comment |-> Str("c")]}

Init ==
  /\ InitStorage /\ NoAI
  /\ storage \in {Mem, Db}
  /\ session = [s \in Sessions |-> Undefined]
  /\ inflight = [s \in Sessions |-> [at |-> "idle"]]
  /\ res = [route |-> "none"]

Next ==
  \/ \E s \in Sessions, body \in SigninBodies : POST_auth_signin(s, body)
  \/ \E s \in Sessions, body \in SignupBodies : POST_auth_signup(s, body)
  \/ \E s \in Sessions : POST_auth_signup_resume(s)
  \/ \E s \in Sessions : POST_auth_signout(s)
  \/ \E s \in Sessions : GET_auth_user(s)
  \/ \E s \in Sessions, upload \in Uploads : POST_analyses(s, upload.file, upload.content)
  \/ \E s \in Sessions : GET_analyses(s)
  \/ \E s \in Sessions, param \in IdParams : GET_analyses_id(s, param)
  \/ \E s \in Sessions, body \in ReportBodies : POST_disease_reports(s, body)
  \/ \E s \in Sessions : GET_disease_reports(s)
  \/ \E s \in Sessions, body \in FeedbackBodies : POST_feedback(s, body)
  \/ \E s \in Sessions : GET_stats(s)

Spec == Init /\ [][Next]_vars

(***************************************************************************)
(* Claims about the routes, checked under Spec.                            *)
(***************************************************************************)
DataRoutes ==
  {"POST /api/analyses", "GET /api/analyses", "GET /api/analyses/:id",
   "POST /api/disease-reports", "GET /api/disease-reports", "POST /api/feedback",
   "GET /api/stats", "GET /api/auth/user"}

\* the routes whose handler starts with the session check
GuardedRoutes == DataRoutes \ {"GET /api/disease-reports"}

CreateRoutes == {"POST /api/analyses", "POST /api/disease-reports", "POST /api/feedback"}

SignRoutes == {"POST /api/auth/signin", "POST /api/auth/signup"}

\* C1: usernames are unique.  The store never holds two users with the same
\* username, also when two signups for one username interleave; a signup
\* answered "Username already exists" made no createUser call and the username
\* is stored, and a signup answered 200 created the only user of that name.
C1_UniqueUsernames ==
  /\ \A u1, u2 \in storedUsers : u1.username = u2.username => u1 = u2
  /\ (res.route = "POST /api/auth/signup" /\ res.message = "Username already exists") =>
       /\ res.status = 400
       /\ res.calls = <<"getUserByUsername">>
       /\ \E u \in storedUsers : u.username = res.req.username
  /\ (res.route = "POST /api/auth/signup" /\ res.status = 200) =>
       \A u \in storedUsers : u.username = res.req.username => u.id = res.body[1].id

\* C2: every data route performs the session check.  A request to a data route
\* whose session has no userId is answered 401 "Not authenticated", with no
\* data in the body and no storage call made.
C2_SessionCheck ==
  (res.route \in DataRoutes /\ ~Truthy(res.userId)) =>
    /\ res.status = 401
    /\ res.message = "Not authenticated"
    /\ res.body = NoBody
    /\ res.calls = <<>>

analysisFields == {"diagnosis", "confidence", "severity", "isHealthy", "description",
                   "treatment"}

\* the field of the AI result that a field of the analysis is taken from
resultField(k) == IF k = "diagnosis" THEN "disease" ELSE k

\* C3: POST /api/analyses persists an analysis only after the AI call has
\* returned.  In a step answering an authenticated upload: without a file the
\* answer is 400 and the stored analyses are unchanged; when analyzePlantImage
\* throws the answer is 500 and the stored analyses are unchanged; otherwise
\* the answer is 200, exactly one analysis is added, and it carries the
\* diagnosis, confidence, severity, healthy flag, description and treatment
\* that analyzePlantImage returned (a field the result leaves undefined is
\* stored as null, the stored form of no value).
C3_PersistAfterAI ==
  [][(res' # res /\ res'.route = "POST /api/analyses" /\ Truthy(session[res'.s])) =>
       IF res'.req.file = Undefined
       THEN /\ res'.status = 400
            /\ storedAnalyses' = storedAnalyses
       ELSE IF detection'.kind = "thrown"
       THEN /\ res'.status = 500
            /\ storedAnalyses' = storedAnalyses
       ELSE /\ detection'.kind = "returned"
            /\ res'.status = 200
            /\ \E analysis \in storedAnalyses' :
                 /\ analysis \notin storedAnalyses
                 /\ storedAnalyses' = storedAnalyses \cup {analysis}
                 /\ res'.body = <<analysis>>
                 /\ \A k \in analysisFields \ {"severity"} :
                      analysis[k] = detection'.value[resultField(k)]
                 /\ analysis.severity = Coalesce(detection'.value.severity, Null)]_vars

\* C3 witness: an upload was answered 200 with the stored analysis, whose
\* diagnosis and confidence are the ones the AI call returned.
C3_Witness ==
  /\ res.route = "POST /api/analyses"
  /\ res.status = 200
  /\ detection.kind = "returned"
  /\ res.body[1] \in storedAnalyses
  /\ res.body[1].diagnosis = detection.value.disease
  /\ res.body[1].confidence = Num(10)

\* C5: session handling.  In every step: (a) a session's userId changes to a
\* value only in a step answering that session's signin or signup with 200, and
\* is then the id of a stored user with the request's username and password
\* (for a signin a user stored before, for a signup the user just created);
\* (b) a signin or signup answered 400 or 401 leaves every session as it was;
\* (c) a signout leaves the session without userId, and a guarded route asked
\* by a session without userId answers 401.
C5_SessionHandling ==
  [][/\ \A s \in Sessions :
          (session'[s] # session[s] /\ session'[s] # Undefined) =>
            /\ res'.s = s
            /\ res'.route \in SignRoutes
            /\ res'.status = 200
            /\ res'.body[1].id = session'[s]
            /\ \E u \in storedUsers' :
                 /\ u.id = session'[s]
                 /\ u.username = res'.req.username
                 /\ u.password = res'.req.password
                 /\ (u \in storedUsers) <=> (res'.route = "POST /api/auth/signin")
     /\ (res' # res /\ res'.route \in SignRoutes /\ res'.status \in {400, 401}) =>
          session' = session
     /\ (res' # res /\ res'.route = "POST /api/auth/signout") =>
          session'[res'.s] = Undefined
     /\ (res' # res /\ res'.route \in GuardedRoutes /\ session[res'.s] = Undefined) =>
          (res'.status = 401 /\ session'[res'.s] = Undefined)]_vars

\* C5 witness: a signed-in session tried to sign in with a wrong password, was
\* answered 401 and is still signed in as before.
C5_Witness ==
  /\ res.route = "POST /api/auth/signin"
  /\ res.status = 401
  /\ res.userId # Undefined
  /\ session[res.s] = res.userId
  /\ \E u \in storedUsers : u.username = res.req.username /\ u.password # res.req.password

ownAnalyses(userId) == {a \in storedAnalyses : a.userId = userId}

\* C9: analyses are isolated per user.  GET /api/analyses answers exactly the
\* stored analyses of the session's user; GET /api/analyses/:id answers 200
\* with the analysis of that id when it is stored and belongs to the session's
\* user and 404 "Analysis not found" otherwise; GET /api/stats counts the
\* session user's analyses only and totalAnalyzed = healthyPlants +
\* diseasesDetected.
C9_Isolation ==
  /\ (res.route = "GET /api/analyses" /\ Truthy(res.userId)) =>
       /\ res.status = 200
       /\ Range(res.body) = ownAnalyses(res.userId)
       /\ Len(res.body) = Cardinality(ownAnalyses(res.userId))
  /\ (res.route = "GET /api/analyses/:id" /\ Truthy(res.userId)) =>
       LET mine == {a \in ownAnalyses(res.userId) : a.id = parseInt(res.req.id)}
       IN IF mine # {}
          THEN res.status = 200 /\ res.body = <<CHOOSE a \in mine : TRUE>>
          ELSE res.status = 404 /\ res.message = "Analysis not found" /\ res.body = NoBody
  /\ (res.route = "GET /api/stats" /\ Truthy(res.userId)) =>
       /\ res.status = 200
       /\ res.body[1].totalAnalyzed = Num(Cardinality(ownAnalyses(res.userId)))
       /\ res.body[1].healthyPlants =
            Num(Cardinality({a \in ownAnalyses(res.userId) : a.isHealthy = Bool(TRUE)}))
       /\ res.body[1].totalAnalyzed.v =
            res.body[1].healthyPlants.v + res.body[1].diseasesDetected.v

\* C9 witness: a signed-in user asked for an analysis that is stored but
\* belongs to another user, and was answered 404.
C9_Witness ==
  /\ res.route = "GET /api/analyses/:id"
  /\ res.status = 404
  /\ Truthy(res.userId)
  /\ \E a \in storedAnalyses : a.id = parseInt(res.req.id) /\ a.userId # res.userId

storedRecords == storedAnalyses \cup storedReports \cup storedFeedback

\* whether the body passes the route's schema once a userId has been put in
validBody(route, body) ==
  IF route = "POST /api/disease-reports"
  THEN insertDiseaseReportSchema_parse([userId |-> Num(1)] @@ body).ok
  ELSE insertUserFeedbackSchema_parse([userId |-> Num(1)] @@ body).ok

\* C10: records are attributed to the authenticated user.  Every analysis,
\* report or feedback that a step adds to the store was created by a create
\* route answering 200 to a session with a userId, and carries that userId,
\* whatever userId the request body supplies; a report or feedback body that
\* fails the schema is answered 400 "Invalid request" and nothing is added.
C10_Attribution ==
  [][/\ \A r \in storedRecords' \ storedRecords :
          /\ res'.route \in CreateRoutes
          /\ res'.status = 200
          /\ res'.body = <<r>>
          /\ Truthy(session[res'.s])
          /\ r.userId = session[res'.s]
     /\ (/\ res' # res
         /\ res'.route \in {"POST /api/disease-reports", "POST /api/feedback"}
         /\ Truthy(session[res'.s])
         /\ ~validBody(res'.route, res'.req)) =>
          /\ res'.status = 400
          /\ res'.message = "Invalid request"
          /\ storedRecords' = storedRecords]_vars

\* C10 witness: a report whose body names another user's id was stored under
\* the id of the session's user.
C10_Witness ==
  /\ res.route = "POST /api/disease-reports"
  /\ res.status = 200
  /\ Get(res.req, "userId") = Num(2)
  /\ res.userId = Num(1)
  /\ res.body[1] \in storedReports
  /\ res.body[1].userId = Num(1)

====
